---- MODULE Spec2Model ----
(***************************************************************************)
(* A model of dzielo_ai/create.py: one run of the script, from the module  *)
(* being loaded to main() returning (or an exception leaving it).          *)
(*                                                                         *)
(* Text is a sequence of one-character strings, a date is a record         *)
(* [year, month, day], and a call that may raise returns either            *)
(* [ok |-> TRUE, val |-> v] or [ok |-> FALSE, exc |-> "Name"].             *)
(***************************************************************************)
EXTENDS Integers, Sequences, FiniteSets, TLC

VARIABLES
    apiKey,              \* OPENAI_API_KEY after load_dotenv: "unset", "empty" or "set"
    repoIsDir,           \* whether args.repo names an existing directory
    promptExists,        \* whether prompts/tasks_rewriter.txt can be read
    mode,                \* "this", "previous" or "custom" (the exclusive group)
    custom,              \* args.custom as [month, year]
    today,               \* datetime.date.today()
    pc,                  \* the statement the run is at
    target_date,         \* main: target_date
    first_day,           \* main: first_day
    last_day,            \* main: last_day
    commit_changes,      \* process_commits: the patch log's text
    git_log_output,      \* load_commit_messages: the subject log's text
    merged_pr_messages,  \* the filtered subject lines
    all_messages,        \* the lines joined for the request
    completion,          \* the text the service returned
    rewritten_messages,  \* the service's text, before and after the re.sub
    outDirMade,          \* output_dir.mkdir has succeeded
    written,             \* the output files this run has created
    patchData,           \* content of {year}_{month}_zmiany.txt
    summaryData,         \* content of {year}_{month}_opis_zmian.txt
    zipMembers,          \* arcnames in the zip archive, in order
    gitCalls,            \* subprocess.run invocations so far
    gitErrors,           \* of which exited non-zero
    apiCalls,            \* client.chat.completions.create calls so far
    apiErrors,           \* of which raised OpenAIError
    stages,              \* the stages entered so far, in order
    outcome,             \* "Running", "Success" or "Aborted"
    failure,             \* what aborted the run, "none" otherwise
    errorLogged,         \* logging.error has been called
    escaped              \* an exception left the script uncaught

vars == <<apiKey, repoIsDir, promptExists, mode, custom, today, pc, target_date,
          first_day, last_day, commit_changes, git_log_output, merged_pr_messages,
          all_messages, completion, rewritten_messages, outDirMade, written, patchData,
          summaryData, zipMembers, gitCalls, gitErrors, apiCalls, apiErrors,
          stages, outcome, failure, errorLogged, escaped>>

inputs == <<apiKey, repoIsDir, promptExists, mode, custom, today>>

Ok(v) == [ok |-> TRUE, val |-> v]
Raise(e) == [ok |-> FALSE, exc |-> e]

(***************************************************************************)
(* datetime.date, as the standard library computes it.                     *)
(***************************************************************************)
MINYEAR == 1
MAXYEAR == 9999
MAXORDINAL == 3652059
DI400Y == 146097
DI100Y == 36524
DI4Y == 1461

DAYS_IN_MONTH == <<31, 28, 31, 30, 31, 30, 31, 31, 30, 31, 30, 31>>
DAYS_BEFORE_MONTH == <<0, 31, 59, 90, 120, 151, 181, 212, 243, 273, 304, 334>>

is_leap(year) == year % 4 = 0 /\ (year % 100 # 0 \/ year % 400 = 0)

days_in_month(year, month) ==
    IF month = 2 /\ is_leap(year) THEN 29 ELSE DAYS_IN_MONTH[month]

days_before_year(year) ==
    LET y == year - 1 IN y * 365 + (y \div 4) - (y \div 100) + (y \div 400)

days_before_month(year, month) ==
    DAYS_BEFORE_MONTH[month] + (IF month > 2 /\ is_leap(year) THEN 1 ELSE 0)

NoDate == [year |-> 0, month |-> 0, day |-> 0]

\* datetime.date(year, month, day): ValueError outside the supported range
Date(year, month, day) ==
    IF /\ MINYEAR <= year /\ year <= MAXYEAR
       /\ 1 <= month /\ month <= 12
       /\ 1 <= day /\ day <= days_in_month(year, month)
    THEN Ok([year |-> year, month |-> month, day |-> day])
    ELSE Raise("ValueError")

toordinal(d) == days_before_year(d.year) + days_before_month(d.year, d.month) + d.day

fromordinal(ord) ==
    LET n0 == ord - 1
        n400 == n0 \div DI400Y
        r400 == n0 % DI400Y
        n100 == r400 \div DI100Y
        r100 == r400 % DI100Y
        n4 == r100 \div DI4Y
        r4 == r100 % DI4Y
        n1 == r4 \div 365
        n == r4 % 365
        year == n400 * 400 + 1 + n100 * 100 + n4 * 4 + n1
        leapyear == n1 = 3 /\ (n4 # 24 \/ n100 = 3)
        month0 == (n + 50) \div 32
        preceding0 == DAYS_BEFORE_MONTH[month0] + (IF month0 > 2 /\ leapyear THEN 1 ELSE 0)
        month == IF preceding0 > n THEN month0 - 1 ELSE month0
        preceding == IF preceding0 > n
                     THEN preceding0 - (DAYS_IN_MONTH[month]
                                        + (IF month = 2 /\ leapyear THEN 1 ELSE 0))
                     ELSE preceding0
    IN  IF n1 = 4 \/ n100 = 4
        THEN [year |-> year - 1, month |-> 12, day |-> 31]
        ELSE [year |-> year, month |-> month, day |-> n - preceding + 1]

\* date - datetime.timedelta(days = days): OverflowError outside the range
date_sub(d, days) ==
    LET o == toordinal(d) - days
    IN  IF 0 < o /\ o <= MAXORDINAL THEN Ok(fromordinal(o)) ELSE Raise("OverflowError")

(***************************************************************************)
(* Period resolution.                                                      *)
(***************************************************************************)
get_previous_month_same_year(date) ==
    IF date.month = 1
    THEN Date(date.year, 12, 1)
    ELSE Date(date.year, date.month - 1, 1)

get_previous_month(date) ==
    IF date.month = 1
    THEN Date(date.year - 1, 12, 1)
    ELSE Date(date.year, date.month - 1, 1)

determine_target_date(previous_month, is_custom, month, year, now) ==
    IF previous_month THEN get_previous_month(now)
    ELSE IF is_custom
         THEN IF ~(1 <= month /\ month <= 12)
              THEN Raise("ValueError")
              ELSE Date(year, month, 1)
         ELSE Ok(now)

validate_repo_path_unchecked(is_dir) == Ok(TRUE)

validate_repo_path(is_dir) ==
    IF ~is_dir THEN Raise("ValueError") ELSE Ok(TRUE)

calculate_month_range(year, month) ==
    LET first == Date(year, month, 1)
        next == IF month = 12 THEN Date(year + 1, 1, 1) ELSE Date(year, month + 1, 1)
    IN  IF ~first.ok THEN first
        ELSE IF ~next.ok THEN next
        ELSE LET last == date_sub(next.val, 1)
             IN  IF ~last.ok THEN last ELSE Ok(<<first.val, last.val>>)

(***************************************************************************)
(* Text: str.strip, str.split, str.startswith, str.join, re.sub.           *)
(***************************************************************************)
NL == "\n"
\* the whitespace str.strip removes, as far as the sample outputs hold any
Whitespace == {" ", "\t", "\n", "\r"}
MergedPR == <<"M", "e", "r", "g", "e", "d", " ", "P", "R">>

RECURSIVE lstrip(_)
lstrip(s) ==
    IF s # <<>> /\ Head(s) \in Whitespace THEN lstrip(Tail(s)) ELSE s

RECURSIVE rstrip(_)
rstrip(s) ==
    IF s # <<>> /\ s[Len(s)] \in Whitespace THEN rstrip(SubSeq(s, 1, Len(s) - 1)) ELSE s

strip(s) == rstrip(lstrip(s))

\* s.split(sep) for a one-character sep: the pieces between the separators
RECURSIVE split_from(_, _, _)
split_from(s, sep, piece) ==
    IF s = <<>> THEN <<piece>>
    ELSE IF Head(s) = sep
         THEN <<piece>> \o split_from(Tail(s), sep, <<>>)
         ELSE split_from(Tail(s), sep, Append(piece, Head(s)))

split(s, sep) == split_from(s, sep, <<>>)

contains(msg, prefix) ==
    \E i \in 1..Len(msg) :
        i + Len(prefix) - 1 <= Len(msg) /\ SubSeq(msg, i, i + Len(prefix) - 1) = prefix

startswith(msg, prefix) ==
    Len(msg) >= Len(prefix) /\ SubSeq(msg, 1, Len(prefix)) = prefix

RECURSIVE join(_, _)
join(sep, parts) ==
    IF parts = <<>> THEN <<>>
    ELSE IF Len(parts) = 1 THEN Head(parts)
    ELSE Head(parts) \o <<sep>> \o join(sep, Tail(parts))

\* load_commit_messages, once git has returned its output
filter_merged(git_output) ==
    LET commit_messages == split(strip(git_output), NL)
    IN  SelectSeq(commit_messages, LAMBDA msg : startswith(msg, MergedPR))

RECURSIVE skip_newlines(_)
skip_newlines(s) ==
    IF s # <<>> /\ Head(s) = NL THEN skip_newlines(Tail(s)) ELSE s

RECURSIVE collapse_pairs(_)
collapse_pairs(text) ==
    IF text = <<>> THEN <<>>
    ELSE IF Len(text) >= 2 /\ text[1] = NL /\ text[2] = NL
         THEN <<NL>> \o collapse_pairs(Tail(Tail(text)))
         ELSE <<Head(text)>> \o collapse_pairs(Tail(text))

\* re.sub(r"\n+", "\n", text): each leftmost longest run becomes one newline
RECURSIVE collapse_newlines(_)
collapse_newlines(text) ==
    IF text = <<>> THEN <<>>
    ELSE IF Head(text) = NL
         THEN <<NL>> \o collapse_newlines(skip_newlines(Tail(text)))
         ELSE <<Head(text)>> \o collapse_newlines(Tail(text))

re_sub_newlines(text) == collapse_newlines(text)

\* `if not merged_pr_messages`
no_messages_never(messages) == FALSE

no_messages(messages) == messages = <<>>

\* rewrite_commit_messages, given what the service answered
rewrite_with_fallback(commit_messages, response) ==
    IF response.ok THEN Ok(response.val) ELSE Ok(commit_messages)

rewrite_commit_messages(commit_messages, response) ==
    IF response.ok THEN Ok(response.val) ELSE Raise("ConnectionError")

\* the files handed to zip_output_files
zip_only_summary == <<"opis_zmian">>

zip_file_list == <<"zmiany", "opis_zmian">>

(***************************************************************************)
(* What the environment can hand to a run.                                 *)
(***************************************************************************)
MaxLines == 3
MaxLen == 6

ApiKeys == {"unset", "empty", "set"}
Modes == {"this", "previous", "custom"}
NoCustom == [month |-> 0, year |-> 0]

DatesOf(years) ==
    {[year |-> y, month |-> m, day |-> d] :
        y \in years, m \in 1..12, d \in 1..31} \ {dt \in
            [year : years, month : 1..12, day : 1..31] : dt.day > days_in_month(dt.year, dt.month)}

\* command lines and clocks of the pipeline runs
RunTodays == {[year |-> 2024, month |-> 1, day |-> 31],
              [year |-> 2024, month |-> 3, day |-> 15],
              [year |-> 2025, month |-> 12, day |-> 1]}
RunCustoms == [month : {0, 2, 12, 13}, year : {0, 2024, 9999, 10000}]

\* subject lines git may print
Line1 == MergedPR \o <<" ", "1">>
Line2 == MergedPR \o <<" ", "2", " ">>
LineLower == <<"m", "e", "r", "g", "e", "d", " ", "P", "R">>
LineLowerPR == <<"M", "e", "r", "g", "e", "d", " ", "p", "r">>
LineInner == <<"F", "i", "x", " ">> \o MergedPR
LineShort == <<"M", "e", "r", "g", "e", "d", " ", "P">>
LineIndented == <<" ">> \o MergedPR \o <<" ", "3">>
LineTab == MergedPR \o <<"\t">>
SampleLines == {Line1, Line2, LineLower, LineLowerPR, LineInner, LineShort,
                LineIndented, LineTab, <<>>}

RECURSIVE LineLists(_)
LineLists(n) ==
    IF n = 0 THEN {<<>>}
    ELSE LineLists(n - 1) \cup
         {Append(ls, l) : ls \in {x \in LineLists(n - 1) : Len(x) = n - 1}, l \in SampleLines}

Pads == {<<>>, <<" ">>, <<NL>>}

\* every output of at most MaxLines sample lines, with or without padding
SubjectLogs ==
    {pre \o join(NL, ls) \o post : pre \in Pads, ls \in LineLists(MaxLines), post \in Pads}

\* the subject logs of the pipeline runs
RunSubjectLogs ==
    {<<>>,
     join(NL, <<LineLower, LineInner>>),
     join(NL, <<Line1, LineShort, Line2>>),
     join(NL, <<LineIndented, Line1>>) \o <<NL>>}

RunPatchLogs == {<<>>, <<"d", "i", "f", "f">>}

RECURSIVE Texts(_)
Texts(n) ==
    IF n = 0 THEN {<<>>}
    ELSE Texts(n - 1) \cup
         {Append(t, c) : t \in {x \in Texts(n - 1) : Len(x) = n - 1}, c \in {"a", NL}}

\* the answers of the pipeline runs
RunAnswers == {<<"a">>, <<"a", NL, NL, "a", NL>>, <<NL, NL, NL, "a", NL, NL>>}

CallFailed == Raise("failed")
GitResults(outputs) == {CallFailed} \cup {Ok(o) : o \in outputs}
ApiResults == {CallFailed} \cup {Ok(t) : t \in RunAnswers}

(***************************************************************************)
(* The run.                                                                *)
(***************************************************************************)
StartOfRun ==
    /\ target_date = NoDate
    /\ first_day = NoDate
    /\ last_day = NoDate
    /\ commit_changes = <<>>
    /\ git_log_output = <<>>
    /\ merged_pr_messages = <<>>
    /\ all_messages = <<>>
    /\ completion = <<>>
    /\ rewritten_messages = <<>>
    /\ outDirMade = FALSE
    /\ written = {}
    /\ patchData = <<>>
    /\ summaryData = <<>>
    /\ zipMembers = <<>>
    /\ gitCalls = 0
    /\ gitErrors = 0
    /\ apiCalls = 0
    /\ apiErrors = 0
    /\ stages = <<>>
    /\ outcome = "Running"
    /\ failure = "none"
    /\ errorLogged = FALSE
    /\ escaped = FALSE

Init ==
    /\ apiKey \in ApiKeys
    /\ repoIsDir \in BOOLEAN
    /\ promptExists \in BOOLEAN
    /\ \/ mode \in {"this", "previous"} /\ custom = NoCustom /\ today \in RunTodays
       \/ mode = "custom" /\ custom \in RunCustoms
          /\ today = [year |-> 2024, month |-> 3, day |-> 15]
    /\ pc = "import"
    /\ StartOfRun

\* an exception handler of main logs the error and returns
Abort(cause) ==
    /\ pc' = "done"
    /\ outcome' = "Aborted"
    /\ failure' = cause
    /\ errorLogged' = TRUE
    /\ UNCHANGED escaped

\* an exception no handler catches ends the script with a traceback
Crash(cause) ==
    /\ pc' = "done"
    /\ outcome' = "Aborted"
    /\ failure' = cause
    /\ escaped' = TRUE
    /\ UNCHANGED errorLogged

Goto(next) ==
    /\ pc' = next
    /\ UNCHANGED <<outcome, failure, errorLogged, escaped>>

Enter(stage) == stages' = Append(stages, stage)

dates == <<target_date, first_day, last_day>>
texts == <<commit_changes, git_log_output, merged_pr_messages, all_messages,
           completion, rewritten_messages>>
disk == <<outDirMade, written, patchData, summaryData, zipMembers>>
calls == <<gitCalls, gitErrors, apiCalls, apiErrors>>

\* load_dotenv(); client = OpenAI(): the client refuses to be built without a key
Import ==
    /\ pc = "import"
    /\ IF apiKey = "unset" THEN Crash("api_key") ELSE Goto("check_key")
    /\ UNCHANGED <<inputs, dates, texts, disk, calls, stages>>

CheckApiKey ==
    /\ pc = "check_key"
    /\ IF apiKey = "empty" THEN Abort("api_key") ELSE Goto("validate")
    /\ UNCHANGED <<inputs, dates, texts, disk, calls, stages>>

ValidateRepoPath ==
    /\ pc = "validate"
    /\ Enter("Resolve")
    /\ IF validate_repo_path(repoIsDir).ok THEN Goto("determine") ELSE Abort("repo_path")
    /\ UNCHANGED <<inputs, dates, texts, disk, calls>>

DetermineTargetDate ==
    /\ pc = "determine"
    /\ LET r == determine_target_date(mode = "previous", mode = "custom",
                                      custom.month, custom.year, today)
       IN  IF r.ok
           THEN target_date' = r.val /\ Goto("range")
           ELSE Abort("custom_date") /\ UNCHANGED target_date
    /\ UNCHANGED <<inputs, first_day, last_day, texts, disk, calls, stages>>

CalculateMonthRange ==
    /\ pc = "range"
    /\ LET r == calculate_month_range(target_date.year, target_date.month)
       IN  IF r.ok
           THEN first_day' = r.val[1] /\ last_day' = r.val[2] /\ Goto("prompt")
           ELSE Crash("month_range") /\ UNCHANGED <<first_day, last_day>>
    /\ UNCHANGED <<inputs, target_date, texts, disk, calls, stages>>

LoadSystemPrompt ==
    /\ pc = "prompt"
    /\ IF promptExists THEN Goto("mkdir") ELSE Abort("prompt")
    /\ UNCHANGED <<inputs, dates, texts, disk, calls, stages>>

MakeOutputDir ==
    /\ pc = "mkdir"
    /\ \E made \in BOOLEAN :
        IF made
        THEN outDirMade' = TRUE /\ Goto("extract_patch")
        ELSE Abort("io") /\ UNCHANGED outDirMade
    /\ UNCHANGED <<inputs, dates, texts, written, patchData, summaryData, zipMembers,
                   calls, stages>>

ExtractPatch ==
    /\ pc = "extract_patch"
    /\ Enter("ExtractPatch")
    /\ gitCalls' = gitCalls + 1
    /\ \E r \in GitResults(RunPatchLogs) :
        IF r.ok
        THEN commit_changes' = r.val /\ Goto("write_patch") /\ UNCHANGED gitErrors
        ELSE gitErrors' = gitErrors + 1 /\ Abort("git_patch") /\ UNCHANGED commit_changes
    /\ UNCHANGED <<inputs, dates, git_log_output, merged_pr_messages, all_messages,
                   completion, rewritten_messages, disk, apiCalls, apiErrors>>

WritePatch ==
    /\ pc = "write_patch"
    /\ \E stored \in BOOLEAN :
        IF stored
        THEN /\ written' = written \cup {"zmiany"}
             /\ patchData' = commit_changes
             /\ Goto("extract_subjects")
        ELSE Abort("io") /\ UNCHANGED <<written, patchData>>
    /\ UNCHANGED <<inputs, dates, texts, outDirMade, summaryData, zipMembers, calls, stages>>

ExtractSubjectsRetrying ==
    /\ pc = "extract_subjects"
    /\ Enter("ExtractSubjects")
    /\ gitCalls' = gitCalls + 1
    /\ \E r \in GitResults(RunSubjectLogs) :
        IF r.ok
        THEN git_log_output' = r.val /\ Goto("filter") /\ UNCHANGED gitErrors
        ELSE /\ gitErrors' = gitErrors + 1
             /\ Goto("extract_subjects")
             /\ UNCHANGED git_log_output
    /\ UNCHANGED <<inputs, dates, commit_changes, merged_pr_messages, all_messages,
                   completion, rewritten_messages, disk, apiCalls, apiErrors>>

ExtractSubjects ==
    /\ pc = "extract_subjects"
    /\ Enter("ExtractSubjects")
    /\ gitCalls' = gitCalls + 1
    /\ \E r \in GitResults(RunSubjectLogs) :
        IF r.ok
        THEN git_log_output' = r.val /\ Goto("filter") /\ UNCHANGED gitErrors
        ELSE /\ gitErrors' = gitErrors + 1
             /\ Abort("git_subjects")
             /\ UNCHANGED git_log_output
    /\ UNCHANGED <<inputs, dates, commit_changes, merged_pr_messages, all_messages,
                   completion, rewritten_messages, disk, apiCalls, apiErrors>>

Filter ==
    /\ pc = "filter"
    /\ Enter("Filter")
    /\ merged_pr_messages' = filter_merged(git_log_output)
    /\ Goto("check_messages")
    /\ UNCHANGED <<inputs, dates, commit_changes, git_log_output, all_messages,
                   completion, rewritten_messages, disk, calls>>

\* `if not merged_pr_messages: return`, else the join
CheckMessages ==
    /\ pc = "check_messages"
    /\ IF no_messages(merged_pr_messages)
       THEN /\ pc' = "done"
            /\ outcome' = "Success"
            /\ UNCHANGED <<all_messages, failure, errorLogged, escaped>>
       ELSE /\ all_messages' = join(NL, merged_pr_messages)
            /\ Goto("rewrite")
    /\ UNCHANGED <<inputs, dates, commit_changes, git_log_output, merged_pr_messages,
                   completion, rewritten_messages, disk, calls, stages>>

Rewrite ==
    /\ pc = "rewrite"
    /\ Enter("Rewrite")
    /\ apiCalls' = apiCalls + 1
    /\ \E response \in ApiResults :
        /\ apiErrors' = IF response.ok THEN apiErrors ELSE apiErrors + 1
        /\ completion' = IF response.ok THEN response.val ELSE completion
        /\ LET r == rewrite_commit_messages(all_messages, response)
           IN  IF r.ok
               THEN rewritten_messages' = r.val /\ Goto("postprocess")
               ELSE Abort("api") /\ UNCHANGED rewritten_messages
    /\ UNCHANGED <<inputs, dates, commit_changes, git_log_output, merged_pr_messages,
                   all_messages, disk, gitCalls, gitErrors>>

Postprocess ==
    /\ pc = "postprocess"
    /\ Enter("Postprocess")
    /\ rewritten_messages' = re_sub_newlines(rewritten_messages)
    /\ Goto("write_summary")
    /\ UNCHANGED <<inputs, dates, commit_changes, git_log_output, merged_pr_messages,
                   all_messages, completion, disk, calls>>

WriteSummary ==
    /\ pc = "write_summary"
    /\ Enter("Write")
    /\ \E stored \in BOOLEAN :
        IF stored
        THEN /\ written' = written \cup {"opis_zmian"}
             /\ summaryData' = rewritten_messages \o <<NL>>
             /\ Goto("zip")
        ELSE Abort("io") /\ UNCHANGED <<written, summaryData>>
    /\ UNCHANGED <<inputs, dates, texts, outDirMade, patchData, zipMembers, calls>>

ZipOutputFiles ==
    /\ pc = "zip"
    /\ Enter("Zip")
    /\ \E stored \in BOOLEAN :
        IF stored
        THEN /\ written' = written \cup {"zip"}
             /\ zipMembers' = zip_file_list
             /\ Goto("finish")
        ELSE Abort("io") /\ UNCHANGED <<written, zipMembers>>
    /\ UNCHANGED <<inputs, dates, texts, outDirMade, patchData, summaryData, calls>>

Finish ==
    /\ pc = "finish"
    /\ pc' = "done"
    /\ outcome' = "Success"
    /\ UNCHANGED <<inputs, dates, texts, disk, calls, stages, failure, errorLogged, escaped>>

Next ==
    \/ Import
    \/ CheckApiKey
    \/ ValidateRepoPath
    \/ DetermineTargetDate
    \/ CalculateMonthRange
    \/ LoadSystemPrompt
    \/ MakeOutputDir
    \/ ExtractPatch
    \/ WritePatch
    \/ ExtractSubjects
    \/ Filter
    \/ CheckMessages
    \/ Rewrite
    \/ Postprocess
    \/ WriteSummary
    \/ ZipOutputFiles
    \/ Finish

Spec == Init /\ [][Next]_vars

(***************************************************************************)
(* The same steps, each started from every input of a wider set: the run   *)
(* is taken up at the statement concerned, in the state main has reached   *)
(* there.                                                                  *)
(***************************************************************************)
RangeYears == {1, 1900, 2000, 2023, 2024, 2100, 9998, 9999}
TodayYears == {2023, 2024, 2025}

\* main has passed the key check and validate_repo_path
Resolving ==
    /\ apiKey = "set"
    /\ repoIsDir = TRUE
    /\ promptExists = TRUE
    /\ commit_changes = <<>>
    /\ git_log_output = <<>>
    /\ merged_pr_messages = <<>>
    /\ all_messages = <<>>
    /\ completion = <<>>
    /\ rewritten_messages = <<>>
    /\ outDirMade = FALSE
    /\ written = {}
    /\ patchData = <<>>
    /\ summaryData = <<>>
    /\ zipMembers = <<>>
    /\ gitCalls = 0
    /\ gitErrors = 0
    /\ apiCalls = 0
    /\ apiErrors = 0
    /\ stages = <<"Resolve">>
    /\ outcome = "Running"
    /\ failure = "none"
    /\ errorLogged = FALSE
    /\ escaped = FALSE

\* `--this-month` or `--previous-month` on any day of TodayYears
InitResolve ==
    /\ mode \in {"this", "previous"}
    /\ custom = NoCustom
    /\ today \in DatesOf(TodayYears)
    /\ pc = "determine"
    /\ target_date = NoDate
    /\ first_day = NoDate
    /\ last_day = NoDate
    /\ Resolving

SpecResolve == InitResolve /\ [][DetermineTargetDate]_vars

\* `--custom MONTH YEAR` for every month of RangeYears, resolved
InitMonthRange ==
    /\ mode = "custom"
    /\ custom \in [month : 1..12, year : RangeYears]
    /\ today = [year |-> 2024, month |-> 3, day |-> 15]
    /\ pc = "range"
    /\ target_date = [year |-> custom.year, month |-> custom.month, day |-> 1]
    /\ first_day = NoDate
    /\ last_day = NoDate
    /\ Resolving

SpecMonthRange == InitMonthRange /\ [][CalculateMonthRange]_vars

\* process_commits has written the patch log and is about to use git's answer
Extracted ==
    /\ apiKey = "set"
    /\ repoIsDir = TRUE
    /\ promptExists = TRUE
    /\ mode = "this"
    /\ custom = NoCustom
    /\ today = [year |-> 2024, month |-> 3, day |-> 15]
    /\ target_date = today
    /\ first_day = [year |-> 2024, month |-> 3, day |-> 1]
    /\ last_day = [year |-> 2024, month |-> 3, day |-> 31]
    /\ commit_changes = <<>>
    /\ outDirMade = TRUE
    /\ written = {"zmiany"}
    /\ patchData = <<>>
    /\ summaryData = <<>>
    /\ zipMembers = <<>>
    /\ gitCalls = 2
    /\ gitErrors = 0
    /\ apiErrors = 0
    /\ outcome = "Running"
    /\ failure = "none"
    /\ errorLogged = FALSE
    /\ escaped = FALSE

\* git has printed any of SubjectLogs
InitFilter ==
    /\ git_log_output \in SubjectLogs
    /\ pc = "filter"
    /\ merged_pr_messages = <<>>
    /\ all_messages = <<>>
    /\ completion = <<>>
    /\ rewritten_messages = <<>>
    /\ apiCalls = 0
    /\ stages = <<"Resolve", "ExtractPatch", "ExtractSubjects">>
    /\ Extracted

SpecFilter == InitFilter /\ [][Filter]_vars

\* the service has answered any text of at most MaxLen characters
InitPostprocess ==
    /\ git_log_output = Line1
    /\ pc = "postprocess"
    /\ merged_pr_messages = <<Line1>>
    /\ all_messages = Line1
    /\ completion \in Texts(MaxLen)
    /\ rewritten_messages = completion
    /\ apiCalls = 1
    /\ stages = <<"Resolve", "ExtractPatch", "ExtractSubjects", "Filter", "Rewrite">>
    /\ Extracted

SpecPostprocess == InitPostprocess /\ [][Postprocess]_vars

(***************************************************************************)
(* Properties.                                                             *)
(***************************************************************************)
BeginsWithMarker(line) ==
    \A i \in 1..Len(MergedPR) : i <= Len(line) /\ line[i] = MergedPR[i]

\* the lines load_commit_messages looks at: commit_messages
RetrievedLines == split(strip(git_log_output), NL)

Filtered == Len(stages) >= 4

\* C1: when none of the retrieved subject lines starts with "Merged PR" (the
\* empty subject log included), the run has written the patch log, never
\* calls the rewrite service, never writes the summary, and ends in success.
C1_NoMergedPRIsNoOpSuccess ==
    (Filtered /\ \A i \in 1..Len(RetrievedLines) : ~BeginsWithMarker(RetrievedLines[i]))
    => /\ "zmiany" \in written
       /\ apiCalls = 0
       /\ "opis_zmian" \notin written
       /\ "zip" \notin written
       /\ pc \in {"check_messages", "done"}
       /\ pc = "done" => (outcome = "Success" /\ ~errorLogged /\ ~escaped)

C1_Witness ==
    /\ pc = "done"
    /\ outcome = "Success"
    /\ stages = <<"Resolve", "ExtractPatch", "ExtractSubjects", "Filter">>
    /\ git_log_output = <<>>
    /\ written = {"zmiany"}
    /\ apiCalls = 0

InvalidRepoPath == ~repoIsDir
InvalidCustomMonth == mode = "custom" /\ ~(custom.month \in 1..12)

\* C2: with a repository path that is no directory, or a --custom month outside
\* 1..12, git is never invoked, the service is never called, no output file
\* (nor the output directory) is created, and the run ends aborted.
C2_ValidationFailureBeforeGit ==
    (InvalidRepoPath \/ InvalidCustomMonth)
    => /\ gitCalls = 0
       /\ apiCalls = 0
       /\ written = {}
       /\ ~outDirMade
       /\ pc = "done" => outcome = "Aborted"

C2_Witness ==
    /\ pc = "done"
    /\ apiKey = "set"
    /\ repoIsDir
    /\ mode = "custom"
    /\ custom.month = 13
    /\ failure = "custom_date"
    /\ errorLogged
    /\ gitCalls = 0
    /\ written = {}

ListedFailure ==
    \/ apiKey \in {"unset", "empty"}
    \/ InvalidRepoPath
    \/ InvalidCustomMonth
    \/ gitErrors > 0
    \/ apiErrors > 0

\* C3: after a missing API key, an invalid repository path, an invalid custom
\* month, a failed git invocation or a failed service call, the run ends with
\* main having logged an error and returned: no exception leaves the script.
C3_EveryFailureLoggedAndReturned ==
    (pc = "done" /\ ListedFailure)
    => (outcome = "Aborted" /\ errorLogged /\ ~escaped)

\* With the key set or empty, every listed failure is logged and returned from.
FailuresWithKeyPresent ==
    (pc = "done" /\ ListedFailure /\ apiKey # "unset")
    => (outcome = "Aborted" /\ errorLogged /\ ~escaped)

\* C4: a failed service call is the run's only one, leaves neither summary
\* nor archive, and aborts the run; a failed git invocation is the run's last.
C4_NoRetryNoFallback ==
    /\ apiErrors > 0
       => /\ apiErrors = 1
          /\ apiCalls = 1
          /\ "opis_zmian" \notin written
          /\ "zip" \notin written
          /\ summaryData = <<>>
          /\ pc = "done"
          /\ outcome = "Aborted"
    /\ gitErrors > 0
       => /\ gitErrors = 1
          /\ gitCalls = (IF "zmiany" \in written THEN 2 ELSE 1)
          /\ apiCalls = 0
          /\ pc = "done"
          /\ outcome = "Aborted"

C4_Witness ==
    /\ pc = "done"
    /\ outcome = "Aborted"
    /\ failure = "api"
    /\ apiErrors = 1
    /\ apiCalls = 1
    /\ merged_pr_messages # <<>>
    /\ written = {"zmiany"}

StageOrder ==
    <<"Resolve", "ExtractPatch", "ExtractSubjects", "Filter",
      "Rewrite", "Postprocess", "Write", "Zip">>

Entered(stage) == Cardinality({i \in 1..Len(stages) : stages[i] = stage})

\* C5: the stages entered are always an initial part of Resolve,
\* Extract(patch), Extract(subjects), Filter, Rewrite, Postprocess, Write, Zip,
\* each entered at most once; git is invoked at most twice and the service at
\* most once; a finished run is either a success (all stages, or the first
\* four with nothing to rewrite) or aborted with an error.
C5_SingleForwardPass ==
    /\ Len(stages) <= Len(StageOrder)
    /\ \A i \in 1..Len(stages) : stages[i] = StageOrder[i]
    /\ gitCalls = Entered("ExtractPatch") + Entered("ExtractSubjects")
    /\ apiCalls = Entered("Rewrite")
    /\ gitCalls <= 2
    /\ apiCalls <= 1
    /\ outcome \in {"Running", "Success", "Aborted"}
    /\ (pc = "done") = (outcome # "Running")
    /\ outcome = "Success"
       => /\ ~errorLogged /\ ~escaped
          /\ \/ stages = StageOrder
             \/ stages = SubSeq(StageOrder, 1, 4) /\ merged_pr_messages = <<>>
    /\ outcome = "Aborted" => (errorLogged \/ escaped)

C5_Witness ==
    /\ pc = "done"
    /\ outcome = "Success"
    /\ stages = StageOrder
    /\ gitCalls = 2
    /\ apiCalls = 1

\* the Gregorian calendar, stated apart from datetime's arithmetic
CalendarLeap(y) == (y % 4 = 0 /\ y % 100 # 0) \/ y % 400 = 0

CalendarDays(y, m) ==
    IF m \in {4, 6, 9, 11} THEN 30
    ELSE IF m = 2 THEN (IF CalendarLeap(y) THEN 29 ELSE 28)
    ELSE 31

FirstOfNextMonth(y, m) ==
    IF m = 12 THEN [year |-> y + 1, month |-> 1, day |-> 1]
    ELSE [year |-> y, month |-> m + 1, day |-> 1]

CalendarDayAfter(d) ==
    IF d.day < CalendarDays(d.year, d.month)
    THEN [year |-> d.year, month |-> d.month, day |-> d.day + 1]
    ELSE FirstOfNextMonth(d.year, d.month)

RangeCalled == target_date # NoDate /\ pc # "range"

\* C6: for the year y and month m of the target date, calculate_month_range
\* returns day 1 of that month and the day just before the first day of the
\* month after it: the calendar's last day of the month.
C6_MonthRangeIsCalendarMonth ==
    RangeCalled
    => /\ first_day = [year |-> target_date.year, month |-> target_date.month, day |-> 1]
       /\ last_day = [year |-> target_date.year, month |-> target_date.month,
                      day |-> CalendarDays(target_date.year, target_date.month)]
       /\ CalendarDayAfter(last_day) = FirstOfNextMonth(target_date.year, target_date.month)

\* Every month but December 9999 does get its calendar range.
MonthRangeBelowLastYear ==
    (RangeCalled /\ ~(target_date.year = MAXYEAR /\ target_date.month = 12))
    => C6_MonthRangeIsCalendarMonth

Determined == target_date # NoDate \/ failure = "custom_date"

\* C7: with --previous-month, a today in January of year Y resolves to
\* December 1 of Y-1, and a today in a month M > 1 to day 1 of month M-1 of
\* the same year, whatever today's day.
C7_PreviousMonth ==
    (mode = "previous" /\ Determined)
    => target_date = (IF today.month = 1
                      THEN [year |-> today.year - 1, month |-> 12, day |-> 1]
                      ELSE [year |-> today.year, month |-> today.month - 1, day |-> 1])

C7_Witness ==
    /\ mode = "previous"
    /\ today.month = 1
    /\ today.day = 31
    /\ target_date = [year |-> today.year - 1, month |-> 12, day |-> 1]

MarkedIn(lines) == {i \in 1..Len(lines) : BeginsWithMarker(lines[i])}

\* result is exactly the marked lines of `lines`, in order and unchanged
ExactlyMarked(result, lines) ==
    LET idx == MarkedIn(lines)
    IN  /\ Len(result) = Cardinality(idx)
        /\ \A i \in idx : result[Cardinality({j \in idx : j <= i})] = lines[i]

\* C8 (as stated): the returned list is exactly the lines of git's output that
\* begin with "Merged PR", in order and unmodified.
C8_FilterOfOutputLines ==
    Filtered => ExactlyMarked(merged_pr_messages, split(git_log_output, NL))

\* C8 (amended): the returned list is exactly the lines, of git's output with
\* its leading and trailing whitespace stripped, that begin with "Merged PR",
\* in order and unmodified.
C8_FilterOfStrippedOutputLines ==
    Filtered => ExactlyMarked(merged_pr_messages, RetrievedLines)

C8_Witness ==
    /\ Filtered
    /\ git_log_output = join(NL, <<Line1, LineInner, Line2>>)
    /\ merged_pr_messages = <<Line1, MergedPR \o <<" ", "2">> >>

Postprocessed == Len(stages) >= 6

NoAdjacentNewlines(text) ==
    \A i \in 1..(Len(text) - 1) : ~(text[i] = NL /\ text[i + 1] = NL)

\* C9: collapsing the newlines of the already collapsed text changes nothing,
\* and the collapsed text holds no two adjacent newlines.
C9_CollapseIdempotent ==
    Postprocessed
    => /\ re_sub_newlines(rewritten_messages) = rewritten_messages
       /\ NoAdjacentNewlines(rewritten_messages)

C9_Witness ==
    /\ Postprocessed
    /\ completion = <<NL, NL, "a", NL, NL, NL>>
    /\ rewritten_messages = <<NL, "a", NL>>

\* C10: the archive exists only with the patch log and the summary written
\* and holds exactly those two; the summary exists only with the patch log
\* written and the one service call answered.
C10_ArtifactsInOrder ==
    /\ "zip" \in written
       => /\ {"zmiany", "opis_zmian"} \subseteq written
          /\ Len(zipMembers) = 2
          /\ {zipMembers[i] : i \in 1..Len(zipMembers)} = {"zmiany", "opis_zmian"}
    /\ "opis_zmian" \in written
       => /\ "zmiany" \in written
          /\ apiCalls = 1
          /\ apiErrors = 0
    /\ "zip" \notin written => zipMembers = <<>>

C10_Witness ==
    /\ pc = "done"
    /\ outcome = "Success"
    /\ written = {"zmiany", "opis_zmian", "zip"}
    /\ zipMembers = <<"zmiany", "opis_zmian">>

====
